---- MODULE Spec2Model ----
(***************************************************************************)
(* Cycle-accurate model of the three PyRTL designs of pllab/pipelined-alu: *)
(*   pipelined-alu.py       fetch / decode / execute+writeback, 16 bit     *)
(*   pipelined-alu-3stg.py  three-stage ALU fed one instruction per cycle  *)
(*   counter.py             fetch / decode+execute counter machine, 8 bit  *)
(* A state is the snapshot a cycle starts from: every register, every      *)
(* memory and the external inputs of that cycle.  Wires are operators over *)
(* that snapshot.  One action per design is one sim.step(): every register *)
(* takes its .next value and every enabled memory write commits, together. *)
(* The variable design says which of the three scripts is being run; the   *)
(* designs share the variables whose names they share in the source.       *)
(***************************************************************************)
EXTENDS Integers, Sequences, FiniteSets, TLC

VARIABLES
    design,         \* "alu", "3stg" or "counter": the script being simulated
    cycle,          \* number of sim.step() calls made so far
    stall, inst,    \* the external inputs of the cycle about to run
    pool,           \* 3stg: the instructions the driver feeds the design
    pc, imem, d_inst, d_pc,                                    \* alu, counter
    rf,                                                        \* alu, 3stg
    x_rd, x_ctrl_alu_op, x_ctrl_branch, x_ctrl_write, x_alu_in1, x_alu_in2,
    counter,                                                   \* counter
    in1, in2, out, c_addr_1, c_addr_2, op_1, write_1, write_2, \* 3stg
    \* history variables (observers, never read by the designs)
    h_d_src,        \* fetch address of the instruction in d_inst, or NoAddr
    h_x_src,        \* fetch address of the instruction in execute, or NoAddr
    h_since,        \* 1..3: cycles since a JUMP was in execute; 0 otherwise
    h_target,       \* target of the last executed JUMP, as the ISA defines it
    h_anyStall,     \* TRUE once a cycle with stall = 1 has been run
    h_stall1,       \* stall input of the previous cycle
    h_stall2,       \* stall input of the cycle before the previous one
    h_issued,       \* 3stg: the instructions issued (stall = 0) so far, in order
    h_phase,        \* 3stg: "issue", "drain1", "drained" or "other"
    h_pipe,         \* 3stg: for stage 1 and stage 2, the instruction in it
                    \* with the operands latched for it, or <<>> for a bubble
    h_twin,         \* the registers of a second run of the same design
    h_log,          \* alu: the rf writes and taken jumps so far, in order
    h_twin_log      \* alu: the same record of the second run

designVars == <<design, cycle, stall, inst, pool>>
aluVars == <<pc, imem, d_inst, d_pc, rf, x_rd, x_ctrl_alu_op, x_ctrl_branch,
             x_ctrl_write, x_alu_in1, x_alu_in2>>
ctrVars == <<counter>>
s3Vars == <<in1, in2, out, c_addr_1, c_addr_2, op_1, write_1, write_2>>
histVars == <<h_d_src, h_x_src, h_since, h_target, h_anyStall, h_stall1,
              h_stall2, h_issued, h_phase, h_pipe, h_twin, h_log,
              h_twin_log>>
vars == <<designVars, aluVars, ctrVars, s3Vars, histVars>>

----------------------------------------------------------------------------
(* Bounds of the exploration *)

MaxCyclesAlu == 10
MaxCycles3 == 6
MaxCyclesCtr == 12

NoAddr == 0 - 1

----------------------------------------------------------------------------
(* Bit vectors *)

RECURSIVE Pow2(_)
Pow2(n) == IF n = 0 THEN 1 ELSE 2 * Pow2(n - 1)

\* value truncated to w bits, as an assignment to a w-bit wire truncates
Trunc(v, w) == v % Pow2(w)

\* v[lo:hi], bits lo .. hi-1
Slice(v, lo, hi) == (v \div Pow2(lo)) % Pow2(hi - lo)

ZeroExtend(v, from, to) == v % Pow2(from)

SignExtend(v, from, to) ==
    IF Slice(v, from - 1, from) = 1
    THEN (v % Pow2(from)) + (Pow2(to) - Pow2(from))
    ELSE v % Pow2(from)

RECURSIVE BitAnd(_, _, _)
BitAnd(a, b, w) ==
    IF w = 0 THEN 0
    ELSE ((a % 2) * (b % 2)) + 2 * BitAnd(a \div 2, b \div 2, w - 1)

RECURSIVE BitOr(_, _, _)
BitOr(a, b, w) ==
    IF w = 0 THEN 0
    ELSE (IF (a % 2) + (b % 2) > 0 THEN 1 ELSE 0)
         + 2 * BitOr(a \div 2, b \div 2, w - 1)

RECURSIVE BitXor(_, _, _)
BitXor(a, b, w) ==
    IF w = 0 THEN 0
    ELSE (((a % 2) + (b % 2)) % 2) + 2 * BitXor(a \div 2, b \div 2, w - 1)

Bool(b) == IF b THEN 1 ELSE 0

\* a memory read: cells never initialised or written read as 0
MemRead(mem, a) == IF a \in DOMAIN mem THEN mem[a] ELSE 0

\* MemBlock.EnabledWrite committed at the end of the cycle
EnabledWrite(mem, addr, data, enable) ==
    IF enable = 1 THEN [mem EXCEPT ![addr] = data] ELSE mem

----------------------------------------------------------------------------
(* pipelined-alu.py *)

WIDTH == 16

OP_NOP == 0
OP_ADD == 1
OP_SUB == 2
OP_XOR == 3
OP_AND == 4
OP_OR == 5
OP_JUMP == 6

\* the bubble written into d_inst by a taken branch: ADD r0 r0 r0
NOP_INST == 4096

\* Stage 3 wires (defined first: the earlier stages read them)
alu_result ==
    CASE x_ctrl_alu_op = OP_ADD -> Trunc(x_alu_in1 + x_alu_in2, WIDTH)
      [] x_ctrl_alu_op = OP_SUB -> Trunc(x_alu_in1 - x_alu_in2, WIDTH)
      [] x_ctrl_alu_op = OP_XOR -> BitXor(x_alu_in1, x_alu_in2, WIDTH)
      [] x_ctrl_alu_op = OP_OR -> BitOr(x_alu_in1, x_alu_in2, WIDTH)
      [] x_ctrl_alu_op = OP_AND -> BitAnd(x_alu_in1, x_alu_in2, WIDTH)
      [] OTHER -> 0

branch_taken == x_ctrl_branch

branch_target == alu_result

\* (variant: the zero register is not protected)
reg_write_enable_anyrd == x_ctrl_write

reg_write_enable == Bool(x_ctrl_write = 1 /\ x_rd # 0)

\* Stage 1
\* (variant: the fetch is not squashed by a taken branch)
d_inst_next_nosquash == MemRead(imem, pc)

d_inst_next == IF branch_taken = 1 THEN NOP_INST ELSE MemRead(imem, pc)

pc_next ==
    IF stall = 1 THEN pc
    ELSE IF branch_taken = 1 THEN branch_target
    ELSE Trunc(pc + 1, WIDTH)

\* (variant: d_pc follows the program counter's next value)
d_pc_next_ahead == pc_next

d_pc_next == pc

\* Stage 2
nop == Bool(branch_taken = 1 \/ stall = 1)

inst_a == IF nop = 1 THEN 0 ELSE Slice(d_inst, 0, 4)

inst_b == IF nop = 1 THEN 0 ELSE Slice(d_inst, 4, 8)

inst_c == IF nop = 1 THEN 0 ELSE Slice(d_inst, 8, 12)

inst_op == IF nop = 1 THEN OP_ADD ELSE Slice(d_inst, 12, 16)

inst_imm == ZeroExtend(Slice(d_inst, 0, 12), 12, WIDTH)

ctrl_alu_op == IF inst_op = OP_JUMP THEN OP_ADD ELSE inst_op

ctrl_branch == IF inst_op = OP_JUMP THEN 1 ELSE 0

\* (variant: the default of the write control is 1)
ctrl_write_default1 ==
    IF inst_op \in {OP_NOP, OP_JUMP} THEN 0 ELSE 1

ctrl_write ==
    IF inst_op \in {OP_ADD, OP_SUB, OP_XOR, OP_OR, OP_AND} THEN 1 ELSE 0

\* the forwarding selects of the two operand muxes
fwd_in1 == Bool(x_rd = inst_a /\ inst_a # 0)

fwd_in2 == Bool(x_rd = inst_b /\ inst_b # 0)

x_alu_in1_next ==
    IF ctrl_branch = 1 THEN d_pc
    ELSE IF fwd_in1 = 1 THEN alu_result
    ELSE MemRead(rf, inst_a)

x_alu_in2_next ==
    IF ctrl_branch = 1 THEN inst_imm
    ELSE IF fwd_in2 = 1 THEN alu_result
    ELSE MemRead(rf, inst_b)

rf_next_alu == EnabledWrite(rf, x_rd, alu_result, reg_write_enable)

\* rf_init of the script
RfInitAlu == [i \in 0..15 |-> IF i < 4 THEN i ELSE 0]

\* imem_init of the script
ShippedProgAlu ==
    (0 :> 4370) @@ (1 :> 4915) @@ (2 :> 24583) @@ (3 :> 8737)
    @@ (4 :> 4096) @@ (9 :> 8481)

\* instruction word: op rd rs2 rs1
Enc(op, c, b, a) == op * 4096 + c * 256 + b * 16 + a

\* programs the instruction memory is loaded with: the script's, and others
\* that put jumps, r0, forwarding and unused opcodes in the pipeline
AluProgs ==
    { ShippedProgAlu,
      \* r0 as destination and as source, then forwarding chains
      (0 :> Enc(OP_ADD, 0, 1, 2)) @@ (1 :> Enc(OP_ADD, 1, 0, 0))
        @@ (2 :> Enc(OP_SUB, 3, 1, 0)) @@ (3 :> Enc(OP_XOR, 2, 3, 1))
        @@ (4 :> Enc(OP_OR, 0, 3, 2)) @@ (5 :> Enc(OP_AND, 1, 2, 3)),
      \* a jump whose two wrong-path instructions write and jump
      (0 :> Enc(OP_XOR, 1, 2, 3)) @@ (1 :> Enc(OP_JUMP, 0, 0, 4))
        @@ (2 :> Enc(OP_ADD, 2, 3, 1)) @@ (3 :> Enc(OP_JUMP, 0, 0, 1))
        @@ (5 :> Enc(OP_OR, 3, 1, 2)) @@ (6 :> Enc(OP_JUMP, 0, 0, 0)),
      \* a jump whose target is a jump
      (0 :> Enc(OP_JUMP, 0, 0, 2)) @@ (1 :> Enc(OP_SUB, 1, 1, 1))
        @@ (2 :> Enc(OP_JUMP, 0, 0, 3)) @@ (3 :> Enc(OP_ADD, 3, 3, 3))
        @@ (5 :> Enc(OP_AND, 2, 3, 1)) @@ (6 :> Enc(OP_SUB, 1, 2, 1)),
      \* opcodes outside the enum, with a destination, ahead of readers
      (0 :> Enc(7, 1, 2, 3)) @@ (1 :> Enc(OP_ADD, 2, 1, 1))
        @@ (2 :> Enc(OP_NOP, 3, 1, 2)) @@ (3 :> Enc(OP_SUB, 1, 3, 2))
        @@ (4 :> Enc(15, 2, 2, 2)) @@ (5 :> Enc(OP_OR, 3, 2, 1)),
      \* a jump with the largest immediate, right after a producer
      (0 :> Enc(OP_ADD, 1, 2, 3)) @@ (1 :> Enc(OP_JUMP, 15, 15, 15))
        @@ (2 :> Enc(OP_SUB, 2, 1, 1)) @@ (4096 :> Enc(OP_XOR, 3, 1, 2)) }

\* the ISA's jump target for a JUMP fetched from address a (docstring: pc + imm)
JumpTargetAlu(a) == Trunc(a + (MemRead(imem, a) % 4096), WIDTH)

InputsAlu(c) == IF c < MaxCyclesAlu THEN {0, 1} ELSE {0}

\* the registers and the register file of the design, as one value
RegsAlu ==
    [pc |-> pc, d_inst |-> d_inst, d_pc |-> d_pc, x_rd |-> x_rd,
     x_ctrl_alu_op |-> x_ctrl_alu_op, x_ctrl_branch |-> x_ctrl_branch,
     x_ctrl_write |-> x_ctrl_write, x_alu_in1 |-> x_alu_in1,
     x_alu_in2 |-> x_alu_in2, rf |-> rf]

\* the ALU output for the execute registers of st
AluResultOf(st) ==
    CASE st.x_ctrl_alu_op = OP_ADD -> Trunc(st.x_alu_in1 + st.x_alu_in2, WIDTH)
      [] st.x_ctrl_alu_op = OP_SUB -> Trunc(st.x_alu_in1 - st.x_alu_in2, WIDTH)
      [] st.x_ctrl_alu_op = OP_XOR -> BitXor(st.x_alu_in1, st.x_alu_in2, WIDTH)
      [] st.x_ctrl_alu_op = OP_OR -> BitOr(st.x_alu_in1, st.x_alu_in2, WIDTH)
      [] st.x_ctrl_alu_op = OP_AND -> BitAnd(st.x_alu_in1, st.x_alu_in2, WIDTH)
      [] OTHER -> 0

\* one sim.step() of the design from registers st with input stall = s and
\* instruction memory mem: the registers after the step
AluCycle(st, s, mem) ==
    LET res == AluResultOf(st)
        taken == st.x_ctrl_branch
        sq == Bool(taken = 1 \/ s = 1)
        a == IF sq = 1 THEN 0 ELSE Slice(st.d_inst, 0, 4)
        b == IF sq = 1 THEN 0 ELSE Slice(st.d_inst, 4, 8)
        c == IF sq = 1 THEN 0 ELSE Slice(st.d_inst, 8, 12)
        op == IF sq = 1 THEN OP_ADD ELSE Slice(st.d_inst, 12, 16)
        imm == ZeroExtend(Slice(st.d_inst, 0, 12), 12, WIDTH)
        jump == IF op = OP_JUMP THEN 1 ELSE 0
    IN  [pc |-> IF s = 1 THEN st.pc
                ELSE IF taken = 1 THEN res
                ELSE Trunc(st.pc + 1, WIDTH),
         d_inst |-> IF taken = 1 THEN NOP_INST ELSE MemRead(mem, st.pc),
         d_pc |-> st.pc,
         x_alu_in1 |-> IF jump = 1 THEN st.d_pc
                       ELSE IF st.x_rd = a /\ a # 0 THEN res
                       ELSE MemRead(st.rf, a),
         x_alu_in2 |-> IF jump = 1 THEN imm
                       ELSE IF st.x_rd = b /\ b # 0 THEN res
                       ELSE MemRead(st.rf, b),
         x_ctrl_alu_op |-> IF op = OP_JUMP THEN OP_ADD ELSE op,
         x_ctrl_branch |-> jump,
         x_ctrl_write |->
            IF op \in {OP_ADD, OP_SUB, OP_XOR, OP_OR, OP_AND} THEN 1 ELSE 0,
         x_rd |-> c,
         rf |-> EnabledWrite(st.rf, st.x_rd, res,
                             Bool(st.x_ctrl_write = 1 /\ st.x_rd # 0))]

\* what the execute stage of st does to the architectural state in one cycle:
\* the rf write it commits and the jump it takes
AluEvents(st) ==
    (IF st.x_ctrl_write = 1 /\ st.x_rd # 0
     THEN << <<"write", st.x_rd, AluResultOf(st)>> >> ELSE <<>>)
    \o (IF st.x_ctrl_branch = 1
        THEN << <<"jump", AluResultOf(st)>> >> ELSE <<>>)

\* the same for the design's own registers, from its wires
events ==
    (IF reg_write_enable = 1
     THEN << <<"write", x_rd, alu_result>> >> ELSE <<>>)
    \o (IF branch_taken = 1
        THEN << <<"jump", branch_target>> >> ELSE <<>>)

AluStep ==
    /\ design = "alu"
    /\ cycle < MaxCyclesAlu
    /\ cycle' = cycle + 1
    /\ stall' \in InputsAlu(cycle + 1)
    /\ pc' = pc_next
    /\ d_inst' = d_inst_next
    /\ d_pc' = d_pc_next
    /\ x_alu_in1' = x_alu_in1_next
    /\ x_alu_in2' = x_alu_in2_next
    /\ x_ctrl_alu_op' = ctrl_alu_op
    /\ x_ctrl_branch' = ctrl_branch
    /\ x_ctrl_write' = ctrl_write
    /\ x_rd' = inst_c
    /\ rf' = rf_next_alu
    /\ h_d_src' = IF branch_taken = 1 THEN NoAddr ELSE pc
    /\ h_x_src' = IF nop = 1 THEN NoAddr ELSE h_d_src
    /\ h_since' = IF branch_taken = 1 THEN 1
                  ELSE IF h_since \in {1, 2} THEN h_since + 1 ELSE 0
    /\ h_target' = IF branch_taken = 1
                   THEN (IF h_x_src = NoAddr THEN NoAddr
                         ELSE JumpTargetAlu(h_x_src))
                   ELSE h_target
    /\ h_anyStall' = (h_anyStall \/ stall = 1)
    /\ h_stall1' = stall
    /\ h_stall2' = h_stall1
    /\ h_log' = h_log \o events
    /\ h_twin' = AluCycle(h_twin, 0, imem)
    /\ h_twin_log' = h_twin_log \o AluEvents(h_twin)
    /\ UNCHANGED <<design, inst, pool, imem, ctrVars, s3Vars, h_issued, h_phase,
                   h_pipe>>

----------------------------------------------------------------------------
(* pipelined-alu-3stg.py *)

ALUOp_ADD == 0
ALUOp_SUB == 1
ALUOp_XOR == 2
ALUOp_AND == 3
ALUOp_OR == 4

S3_WIDTH == 16

s3_inst_a == Slice(inst, 0, 4)

s3_inst_b == Slice(inst, 4, 8)

s3_inst_c == Slice(inst, 8, 12)

s3_inst_op == Slice(inst, 12, 16)

s3_alu_result ==
    CASE op_1 = ALUOp_ADD -> Trunc(in1 + in2, S3_WIDTH)
      [] op_1 = ALUOp_SUB -> Trunc(in1 - in2, S3_WIDTH)
      [] op_1 = ALUOp_XOR -> BitXor(in1, in2, S3_WIDTH)
      [] op_1 = ALUOp_OR -> BitOr(in1, in2, S3_WIDTH)
      [] op_1 = ALUOp_AND -> BitAnd(in1, in2, S3_WIDTH)
      [] OTHER -> 0

\* (variant: no forwarding from stage 1)
in1_next_stale ==
    IF stall = 1 THEN 0
    ELSE IF c_addr_2 = s3_inst_a THEN out
    ELSE MemRead(rf, s3_inst_a)

\* (variant: the older producer is tried first)
in1_next_oldest ==
    IF stall = 1 THEN 0
    ELSE IF c_addr_2 = s3_inst_a THEN out
    ELSE IF c_addr_1 = s3_inst_a THEN s3_alu_result
    ELSE MemRead(rf, s3_inst_a)

in1_next ==
    IF stall = 1 THEN 0
    ELSE IF c_addr_1 = s3_inst_a THEN s3_alu_result
    ELSE IF c_addr_2 = s3_inst_a THEN out
    ELSE MemRead(rf, s3_inst_a)

in2_next ==
    IF stall = 1 THEN 0
    ELSE IF c_addr_1 = s3_inst_b THEN s3_alu_result
    ELSE IF c_addr_2 = s3_inst_b THEN out
    ELSE MemRead(rf, s3_inst_b)

\* (variant: a stalled cycle still marks its slot as writing)
write_1_next_always == IF stall = 1 THEN 1 ELSE 1

write_1_next == IF stall = 1 THEN 0 ELSE 1

\* (variant: c_addr_1 has no stall branch)
Stg3CAddr1_nostall(s, c) == IF s = 1 THEN c ELSE c

\* c_addr_1.next for stall input s and destination field c
Stg3CAddr1(s, c) == IF s = 1 THEN 0 ELSE c

c_addr_1_next == Stg3CAddr1(stall, s3_inst_c)

\* (variant: the write ignores its enable)
rf_next_3stg_noenable == [rf EXCEPT ![c_addr_2] = out]

rf_next_3stg == EnabledWrite(rf, c_addr_2, out, write_2)

\* (variant: a stalled cycle also cancels the write of the slot in stage 1)
write_2_next_stallgated == IF stall = 1 THEN 0 ELSE write_1

write_2_next == write_1

c_addr_2_next == c_addr_1

\* rf_init of the script
RfInit3 == [i \in 0..15 |-> i]

\* the four instructions of the script's run
ShippedRun3 == <<274, 819, 4641, 4385>>

\* instruction word: op c b a
Enc3(op, c, b, a) == op * 4096 + c * 256 + b * 16 + a

\* the sets of instructions a run draws its inst input from: the script's four;
\* writes and reads of r0 with OR; XOR, AND and an opcode outside the enum
Pools3 ==
    { {274, 819, 4641, 4385},
      {Enc3(ALUOp_ADD, 0, 1, 2), Enc3(ALUOp_ADD, 1, 0, 0),
       Enc3(ALUOp_OR, 3, 1, 0)},
      {Enc3(ALUOp_XOR, 1, 1, 3), Enc3(ALUOp_AND, 3, 1, 2),
       Enc3(5, 2, 3, 1)} }

\* instruction inputs offered in a cycle with stall = 1
StallInsts3 == {0}

Inputs3(c) ==
    IF c < MaxCycles3
    THEN ({0} \X pool) \cup ({1} \X StallInsts3)
    ELSE {<<0, 0>>}

\* one instruction executed on its own on register file r: the reference
RefOp(op, x, y) ==
    CASE op = 0 -> (x + y) % 65536
      [] op = 1 -> (x - y) % 65536
      [] op = 2 -> BitXor(x, y, 16)
      [] op = 3 -> BitAnd(x, y, 16)
      [] op = 4 -> BitOr(x, y, 16)
      [] OTHER -> 0

RefExec(r, i) ==
    [r EXCEPT ![(i \div 256) % 16] =
        RefOp((i \div 4096) % 16, r[i % 16], r[(i \div 16) % 16])]

\* the instructions of a sequence executed one at a time, in order, on r
RECURSIVE RefRun(_, _)
RefRun(r, is) ==
    IF is = <<>> THEN r ELSE RefRun(RefExec(r, Head(is)), Tail(is))

\* the registers and the register file of the design, as one value
Regs3 ==
    [op_1 |-> op_1, in1 |-> in1, in2 |-> in2, out |-> out,
     write_1 |-> write_1, write_2 |-> write_2,
     c_addr_1 |-> c_addr_1, c_addr_2 |-> c_addr_2, rf |-> rf]

\* one sim.step() of the design from registers st with inputs stall = s,
\* inst = i: the registers after the step
Stg3Cycle(st, s, i) ==
    LET a == Slice(i, 0, 4)
        b == Slice(i, 4, 8)
        c == Slice(i, 8, 12)
        op == Slice(i, 12, 16)
        res == CASE st.op_1 = ALUOp_ADD -> Trunc(st.in1 + st.in2, S3_WIDTH)
                 [] st.op_1 = ALUOp_SUB -> Trunc(st.in1 - st.in2, S3_WIDTH)
                 [] st.op_1 = ALUOp_XOR -> BitXor(st.in1, st.in2, S3_WIDTH)
                 [] st.op_1 = ALUOp_OR -> BitOr(st.in1, st.in2, S3_WIDTH)
                 [] st.op_1 = ALUOp_AND -> BitAnd(st.in1, st.in2, S3_WIDTH)
                 [] OTHER -> 0
        operand(r) ==
            IF s = 1 THEN 0
            ELSE IF st.c_addr_1 = r THEN res
            ELSE IF st.c_addr_2 = r THEN st.out
            ELSE MemRead(st.rf, r)
    IN  [op_1 |-> op,
         in1 |-> operand(a),
         in2 |-> operand(b),
         write_1 |-> IF s = 1 THEN 0 ELSE 1,
         c_addr_1 |-> Stg3CAddr1(s, c),
         out |-> res,
         write_2 |-> st.write_1,
         c_addr_2 |-> st.c_addr_1,
         rf |-> EnabledWrite(st.rf, st.c_addr_2, st.out, st.write_2)]

\* the inst input of the second run: the same as inst in a cycle with
\* stall = 0; in a stalled cycle the driver of the second run leaves the last
\* issued instruction on the input (all ones before the first issue)
TwinInst3 ==
    IF stall = 0 THEN inst
    ELSE IF h_issued = <<>> THEN 65535
    ELSE h_issued[Len(h_issued)]

S3Step ==
    /\ design = "3stg"
    /\ cycle < MaxCycles3
    /\ cycle' = cycle + 1
    /\ \E io \in Inputs3(cycle + 1) : stall' = io[1] /\ inst' = io[2]
    /\ op_1' = s3_inst_op
    /\ in1' = in1_next
    /\ in2' = in2_next
    /\ write_1' = write_1_next
    /\ c_addr_1' = c_addr_1_next
    /\ out' = s3_alu_result
    /\ write_2' = write_2_next
    /\ c_addr_2' = c_addr_2_next
    /\ rf' = rf_next_3stg
    /\ h_issued' = IF stall = 0 THEN Append(h_issued, inst) ELSE h_issued
    /\ h_phase' = IF stall = 0
                  THEN (IF h_phase = "issue" THEN "issue" ELSE "other")
                  ELSE CASE h_phase = "issue" -> "drain1"
                         [] h_phase = "drain1" -> "drained"
                         [] OTHER -> "other"
    /\ h_anyStall' = (h_anyStall \/ stall = 1)
    /\ h_stall1' = stall
    /\ h_stall2' = h_stall1
    /\ h_pipe' = << IF stall = 0 THEN <<inst, in1_next, in2_next>> ELSE <<>>,
                    h_pipe[1] >>
    /\ h_twin' = Stg3Cycle(h_twin, stall, TwinInst3)
    /\ UNCHANGED <<design, pool, pc, imem, d_inst, d_pc, x_rd, x_ctrl_alu_op,
                   x_ctrl_branch, x_ctrl_write, x_alu_in1, x_alu_in2,
                   ctrVars, h_d_src, h_x_src, h_since, h_target,
                   h_log, h_twin_log>>

----------------------------------------------------------------------------
(* counter.py *)

CTR_WIDTH == 8

CTR_NOP == 0
CTR_INC == 1
CTR_DEC == 2
CTR_JUMP == 3

ctr_inst_op == Slice(d_inst, CTR_WIDTH - 2, CTR_WIDTH)

\* (variant: the immediate is zero-extended)
ctr_inst_imm_zext == Slice(d_inst, 0, CTR_WIDTH - 2)

ctr_inst_imm == SignExtend(Slice(d_inst, 0, CTR_WIDTH - 2), CTR_WIDTH - 2, CTR_WIDTH)

ctr_alu_result ==
    CASE ctr_inst_op = CTR_INC -> Trunc(counter + 1, CTR_WIDTH)
      [] ctr_inst_op = CTR_DEC -> Trunc(counter - 1, CTR_WIDTH)
      [] ctr_inst_op = CTR_JUMP -> Trunc(d_pc + ctr_inst_imm, CTR_WIDTH)
      [] OTHER -> 0

\* wires assigned under a condition read 0 when the condition is false
ctr_branch_taken == IF ctr_inst_op = CTR_JUMP THEN 1 ELSE 0

ctr_branch_target == IF ctr_inst_op = CTR_JUMP THEN ctr_alu_result ELSE 0

ctr_d_inst_next == IF ctr_branch_taken = 1 THEN 0 ELSE MemRead(imem, pc)

\* (variant: the incremented program counter is not cut to 8 bits)
ctr_pc_next_wide ==
    IF ctr_branch_taken = 1 THEN ctr_branch_target
    ELSE pc + 1

ctr_pc_next ==
    IF ctr_branch_taken = 1 THEN ctr_branch_target
    ELSE Trunc(pc + 1, CTR_WIDTH)

\* (variant: JUMP also assigns the counter)
counter_next_onjump ==
    IF ctr_inst_op # CTR_NOP THEN ctr_alu_result ELSE counter

\* (variant: only JUMP is excluded from the counter update)
counter_next_onnop ==
    IF ctr_inst_op # CTR_JUMP THEN ctr_alu_result ELSE counter

\* a register with no assignment selected keeps its value
counter_next ==
    IF ctr_inst_op # CTR_JUMP /\ ctr_inst_op # CTR_NOP
    THEN ctr_alu_result
    ELSE counter

CtrEnc(op, imm) == op * 64 + (imm % 64)

\* imem_init of the script
ShippedProgCtr ==
    (0 :> 64) @@ (1 :> 64) @@ (2 :> 64) @@ (3 :> 128) @@ (4 :> 195)
    @@ (5 :> 128) @@ (6 :> 128) @@ (7 :> 64) @@ (8 :> 64) @@ (9 :> 64)
    @@ (10 :> 0)

CtrProgs ==
    { ShippedProgCtr,
      \* a backward jump: a loop of two increments
      (0 :> CtrEnc(CTR_INC, 0)) @@ (1 :> CtrEnc(CTR_INC, 5))
        @@ (2 :> CtrEnc(CTR_JUMP, 0 - 2)) @@ (3 :> CtrEnc(CTR_DEC, 0)),
      \* decrement from 0, then a jump below address 0
      (0 :> CtrEnc(CTR_DEC, 0)) @@ (1 :> CtrEnc(CTR_JUMP, 0 - 3))
        @@ (2 :> CtrEnc(CTR_INC, 0)) @@ (254 :> CtrEnc(CTR_DEC, 0))
        @@ (255 :> CtrEnc(CTR_INC, 0)),
      \* a jump to itself, and the farthest forward and backward jumps
      (0 :> CtrEnc(CTR_JUMP, 31)) @@ (1 :> CtrEnc(CTR_DEC, 0))
        @@ (31 :> CtrEnc(CTR_JUMP, 0 - 32)) @@ (32 :> CtrEnc(CTR_INC, 0))
        @@ (255 :> CtrEnc(CTR_JUMP, 0)),
      \* a jump whose shadow instruction is a jump
      (0 :> CtrEnc(CTR_INC, 0)) @@ (1 :> CtrEnc(CTR_JUMP, 3))
        @@ (2 :> CtrEnc(CTR_JUMP, 1)) @@ (3 :> CtrEnc(CTR_DEC, 0))
        @@ (4 :> CtrEnc(CTR_NOP, 9)) @@ (5 :> CtrEnc(CTR_JUMP, 0 - 5)),
      \* the counter and the program counter wrapping in both directions
      (0 :> CtrEnc(CTR_DEC, 0)) @@ (1 :> CtrEnc(CTR_INC, 0))
        @@ (2 :> CtrEnc(CTR_JUMP, 0 - 4)) @@ (3 :> CtrEnc(CTR_INC, 0))
        @@ (254 :> CtrEnc(CTR_DEC, 0)) @@ (255 :> CtrEnc(CTR_INC, 0)) }

CounterStep ==
    /\ design = "counter"
    /\ cycle < MaxCyclesCtr
    /\ cycle' = cycle + 1
    /\ pc' = ctr_pc_next
    /\ d_inst' = ctr_d_inst_next
    /\ d_pc' = pc
    /\ counter' = counter_next
    /\ h_d_src' = IF ctr_branch_taken = 1 THEN NoAddr ELSE pc
    /\ UNCHANGED <<design, stall, inst, pool, imem, rf, x_rd, x_ctrl_alu_op,
                   x_ctrl_branch, x_ctrl_write, x_alu_in1, x_alu_in2, s3Vars,
                   h_x_src, h_since, h_target, h_anyStall, h_stall1, h_stall2,
                   h_issued, h_phase, h_pipe, h_twin, h_log, h_twin_log>>

----------------------------------------------------------------------------
(* The three simulations *)

\* every register is 0 at reset
Reset ==
    /\ cycle = 0
    /\ pc = 0 /\ d_inst = 0 /\ d_pc = 0
    /\ x_rd = 0 /\ x_ctrl_alu_op = 0 /\ x_ctrl_branch = 0 /\ x_ctrl_write = 0
    /\ x_alu_in1 = 0 /\ x_alu_in2 = 0
    /\ counter = 0
    /\ in1 = 0 /\ in2 = 0 /\ out = 0 /\ c_addr_1 = 0 /\ c_addr_2 = 0
    /\ op_1 = 0 /\ write_1 = 0 /\ write_2 = 0
    /\ h_d_src = NoAddr /\ h_x_src = NoAddr /\ h_since = 0
    /\ h_target = NoAddr /\ h_anyStall = FALSE
    /\ h_stall1 = 0 /\ h_stall2 = 0
    /\ h_phase = "issue" /\ h_issued = <<>>
    /\ h_log = <<>> /\ h_twin_log = <<>>
    /\ h_pipe = << <<>>, <<>> >>

InitAlu ==
    /\ design = "alu"
    /\ imem \in AluProgs
    /\ rf = RfInitAlu
    /\ stall \in InputsAlu(0)
    /\ inst = 0
    /\ pool = {}
    /\ h_twin = RegsAlu

Init3 ==
    /\ design = "3stg"
    /\ imem = <<>>
    /\ rf = RfInit3
    /\ pool \in Pools3
    /\ h_twin = Regs3
    /\ \E io \in Inputs3(0) : stall = io[1] /\ inst = io[2]

InitCtr ==
    /\ design = "counter"
    /\ imem \in CtrProgs
    /\ rf = [i \in 0..15 |-> 0]
    /\ stall = 0
    /\ inst = 0
    /\ pool = {}
    /\ h_twin = <<>>

Init == Reset /\ (InitAlu \/ Init3 \/ InitCtr)

Next == AluStep \/ S3Step \/ CounterStep

Spec == Init /\ [][Next]_vars

----------------------------------------------------------------------------
(* Properties *)

\* the execute-stage registers hold the bubble ADD r0 r0 r0
XIsBubble ==
    /\ x_rd = 0 /\ x_ctrl_alu_op = OP_ADD
    /\ x_ctrl_branch = 0 /\ x_ctrl_write = 1
    /\ x_alu_in1 = 0 /\ x_alu_in2 = 0

\* the execute-stage control registers are the decode of instruction word w
XHoldsDecodeOf(w) ==
    LET op == (w \div 4096) % 16
    IN /\ x_rd = (w \div 256) % 16
       /\ x_ctrl_branch = Bool(op = 6)
       /\ x_ctrl_write = Bool(op \in 1..5)
       /\ x_ctrl_alu_op = (IF op = 6 THEN 1 ELSE op)

\* C1: pipelined-alu.py with stall held at 0.  A JUMP in execute was fetched
\* from an address a; in the two cycles after it the execute stage holds the
\* bubble ADD r0 r0 r0 (no rf write, no redirect), the wrong-path fetch from
\* a+2 is replaced by 0x1000 and pc is (a + imm12) mod 2^16; the third cycle
\* after it the execute stage holds the instruction fetched from that target.
\* For the script's program r2 keeps its initial value 2.
C1_JumpSquash ==
    (design = "alu" /\ ~h_anyStall) =>
        /\ (branch_taken = 1 =>
                /\ h_x_src # NoAddr
                /\ (MemRead(imem, h_x_src) \div 4096) % 16 = OP_JUMP)
        /\ (h_since \in {1, 2} =>
                XIsBubble /\ reg_write_enable = 0 /\ branch_taken = 0)
        /\ (h_since = 1 => d_inst = NOP_INST /\ pc = h_target)
        /\ (h_since = 3 =>
                /\ h_x_src = h_target
                /\ XHoldsDecodeOf(MemRead(imem, h_target)))
        /\ (imem = ShippedProgAlu => rf[2] = 2)

\* the script's JUMP 7 at address 2 has executed, both wrong-path slots have
\* passed as bubbles and the SUB at address 9 is in execute
C1_Witness ==
    /\ design = "alu" /\ ~h_anyStall /\ imem = ShippedProgAlu
    /\ h_since = 3 /\ h_target = 9 /\ h_x_src = 9
    /\ x_rd = 1 /\ x_ctrl_alu_op = OP_SUB /\ rf[2] = 2

\* the register-file write enable of the design being run
WriteEnable == IF design = "alu" THEN reg_write_enable ELSE write_2

\* C2 as stated: in a cycle with stall = 1 the rf write enable is low and rf
\* is the same before and after the cycle's commit (both ALU designs).
C2_NoWriteWhileStalled ==
    [][(design \in {"alu", "3stg"} /\ stall = 1) =>
            (WriteEnable = 0 /\ rf' = rf)]_vars

\* C2 amended: the bubble issued by a cycle with stall = 1 never writes.  In
\* pipelined-alu.py the cycle after a stalled cycle has reg_write_enable low
\* and leaves rf unchanged; in pipelined-alu-3stg.py a stalled cycle clears
\* write_1 and the second cycle after it has write_2 low and leaves rf
\* unchanged.
C2_StallBubbleNeverWrites ==
    [][/\ (design = "alu" /\ h_stall1 = 1) =>
              (reg_write_enable = 0 /\ rf' = rf)
       /\ (design = "3stg" /\ h_stall1 = 1) => write_1 = 0
       /\ (design = "3stg" /\ h_stall2 = 1) => (write_2 = 0 /\ rf' = rf)]_vars

\* 3stg: the bubble of a stalled cycle is in the write-back slot, between an
\* instruction that has written and one that is about to
C2_Witness ==
    /\ design = "3stg" /\ h_stall2 = 1 /\ h_stall1 = 0
    /\ write_2 = 0 /\ write_1 = 1 /\ rf # RfInit3 /\ cycle < MaxCycles3

\* C3 as stated: over a cycle with stall = 1, pc keeps its value and d_inst,
\* d_pc either keep their values or d_inst becomes the bubble 0x1000.
C3_StallHoldsFetch ==
    [][(design = "alu" /\ stall = 1) =>
            /\ pc' = pc
            /\ \/ d_inst' = NOP_INST
               \/ (d_inst' = d_inst /\ d_pc' = d_pc)]_vars

\* C4 as stated: with branch_taken and stall both high, pc takes the branch
\* target and d_inst the bubble.
C4_SquashBeatsStall ==
    [][(design = "alu" /\ branch_taken = 1 /\ stall = 1) =>
            (pc' = branch_target /\ d_inst' = NOP_INST)]_vars

\* C5: pipelined-alu-3stg.py from reset with rf[i] = i.  After n instructions
\* issued back to back with stall = 0 and two draining cycles with stall = 1,
\* rf is what executing the n instructions one at a time, in order, gives;
\* for the script's four instructions that is r1 = 2, r2 = 1, r3 = 6 and
\* r[i] = i elsewhere.
C5_SequentialResult ==
    (design = "3stg" /\ h_phase = "drained") =>
        /\ rf = RefRun(RfInit3, h_issued)
        /\ (h_issued = ShippedRun3 =>
                rf = [i \in 0..15 |->
                        CASE i = 1 -> 2 [] i = 2 -> 1 [] i = 3 -> 6
                          [] OTHER -> i])

\* the script's run: four instructions, two draining cycles
C5_Witness ==
    /\ design = "3stg" /\ h_phase = "drained" /\ h_issued = ShippedRun3
    /\ cycle = 6 /\ rf[1] = 2 /\ rf[2] = 1 /\ rf[3] = 6

\* C6: pipelined-alu-3stg.py, stall = 0.  When c_addr_1 and c_addr_2 both
\* equal a source index, the operand latched for that source is the stage-1
\* result alu_result (the younger producer), not the stage-2 register out.
C6_YoungestProducerWins ==
    [][(design = "3stg" /\ stall = 0) =>
            /\ (c_addr_1 = s3_inst_a /\ c_addr_2 = s3_inst_a) =>
                    in1' = s3_alu_result
            /\ (c_addr_1 = s3_inst_b /\ c_addr_2 = s3_inst_b) =>
                    in2' = s3_alu_result]_vars

\* two instructions writing the same register are in flight with different
\* results and the instruction being issued reads that register as source a
C6_Witness ==
    /\ design = "3stg" /\ stall = 0 /\ cycle < MaxCycles3
    /\ write_1 = 1 /\ write_2 = 1
    /\ c_addr_1 = s3_inst_a /\ c_addr_2 = s3_inst_a
    /\ s3_alu_result # out /\ out # rf[s3_inst_a]

\* C7: pipelined-alu.py, rf[0] initialised to 0.  rf[0] is 0 before and after
\* every cycle; the write enable is low when x_rd = 0; the forwarding select
\* is low for source index 0; an operand read from register 0 is latched as 0.
C7_ZeroRegister ==
    [][design = "alu" =>
            /\ rf[0] = 0 /\ rf'[0] = 0
            /\ (x_rd = 0 => reg_write_enable = 0)
            /\ (inst_a = 0 => fwd_in1 = 0)
            /\ (inst_b = 0 => fwd_in2 = 0)
            /\ (ctrl_branch = 0 /\ inst_a = 0) => x_alu_in1' = 0
            /\ (ctrl_branch = 0 /\ inst_b = 0) => x_alu_in2' = 0]_vars

\* an instruction with destination r0 and a nonzero result is in execute while
\* the instruction in decode reads r0
C7_Witness ==
    /\ design = "alu" /\ cycle < MaxCyclesAlu
    /\ h_x_src # NoAddr /\ x_rd = 0 /\ x_ctrl_write = 1 /\ alu_result # 0
    /\ nop = 0 /\ ctrl_branch = 0 /\ inst_a = 0 /\ ctrl_write = 1
    /\ rf[0] = 0

\* C8: one cycle's commit changes at most the rf cell at the write address,
\* and only when the write enable is 1 (pipelined-alu.py: x_rd, alu_result,
\* reg_write_enable; 3stg: c_addr_2, out, write_2); imem never changes.
C8_EnabledWriteFrame ==
    [][/\ design = "alu" =>
              \A i \in 0..15 :
                  rf'[i] = IF reg_write_enable = 1 /\ i = x_rd
                           THEN alu_result ELSE rf[i]
       /\ design = "3stg" =>
              \A i \in 0..15 :
                  rf'[i] = IF write_2 = 1 /\ i = c_addr_2
                           THEN out ELSE rf[i]
       /\ DOMAIN rf' = 0..15
       /\ imem' = imem]_vars

\* 3stg: a bubble (enable 0) is in the write-back slot with address and data
\* that would change rf if the write were applied
C8_Witness ==
    /\ design = "3stg" /\ cycle < MaxCycles3
    /\ write_2 = 0 /\ out # rf[c_addr_2] /\ rf # RfInit3

\* the counter values of the script's run, at the start of cycles 0..10 and
\* after the 11th cycle
CounterTrace == <<0, 0, 1, 2, 3, 2, 2, 2, 3, 4, 5, 5>>

\* C9: counter.py, the script's program from reset.  The counter follows
\* 0,0,1,2,3,2,2,2,3,4,5 and is 5 after the 11th cycle; the JUMP at address 4
\* leads to address 7 and nothing fetched from addresses 5 or 6 is decoded.
C9_ShippedCounterRun ==
    (design = "counter" /\ imem = ShippedProgCtr /\ cycle <= 11) =>
        /\ counter = CounterTrace[cycle + 1]
        /\ (cycle = 5 => ctr_inst_op = CTR_JUMP /\ d_pc = 4)
        /\ (cycle = 6 => pc = 7 /\ d_inst = 0)
        /\ h_d_src \notin {5, 6}

C9_Witness ==
    /\ design = "counter" /\ imem = ShippedProgCtr
    /\ cycle = 11 /\ counter = 5 /\ pc = 12

\* the 6-bit immediate of instruction word w as a signed number
Imm6Signed(w) == IF w % 64 >= 32 THEN (w % 64) - 64 ELSE w % 64

\* C10: counter.py.  The instruction in decode was fetched from d_pc; a JUMP
\* fetched from address a sets pc to (a + signed imm6) mod 256 and leaves the
\* counter alone; the instruction fetched while it executes is replaced by
\* NOP, which changes neither the counter nor the flow of pc.
C10_JumpRelativeSigned ==
    [][design = "counter" =>
            /\ (h_d_src # NoAddr =>
                    d_pc = h_d_src /\ d_inst = MemRead(imem, h_d_src))
            /\ (ctr_inst_op = CTR_JUMP =>
                    /\ h_d_src # NoAddr
                    /\ pc' = (h_d_src + Imm6Signed(d_inst)) % 256
                    /\ d_inst' = 0 /\ h_d_src' = NoAddr
                    /\ counter' = counter)
            /\ (h_d_src = NoAddr =>
                    /\ d_inst = 0 /\ ctr_branch_taken = 0
                    /\ counter' = counter
                    /\ pc' = (pc + 1) % 256)]_vars

\* a backward JUMP has executed: pc is below the address the JUMP came from
\* and the instruction fetched behind the JUMP has become the NOP in decode
C10_Witness ==
    /\ design = "counter" /\ cycle > 0 /\ cycle < MaxCyclesCtr
    /\ h_d_src = NoAddr /\ d_inst = 0 /\ d_pc > 0 /\ pc < d_pc - 1
    /\ MemRead(imem, d_pc - 1) \div 64 = CTR_JUMP
    /\ MemRead(imem, d_pc) # 0

\* the opcode field of instruction word w
OpOf(w) == (w \div 4096) % 16

\* C11: pipelined-alu.py.  For an opcode outside ADD, SUB, XOR, AND, OR, JUMP
\* (0 and 7..15) decode gives ctrl_write = 0 and ctrl_branch = 0 and passes
\* the opcode to the ALU, whose result for it is 0; when such an instruction,
\* fetched from some address, is in execute it writes no rf cell and does not
\* redirect pc.
C11_UnmappedOpcodeHarmless ==
    [][design = "alu" =>
            /\ (inst_op \notin 1..6 =>
                    /\ ctrl_write = 0 /\ ctrl_branch = 0
                    /\ ctrl_alu_op = inst_op)
            /\ (x_ctrl_alu_op \notin 1..5 => alu_result = 0)
            /\ ((h_x_src # NoAddr /\ OpOf(MemRead(imem, h_x_src)) \notin 1..6) =>
                    /\ x_ctrl_alu_op = OpOf(MemRead(imem, h_x_src))
                    /\ alu_result = 0
                    /\ reg_write_enable = 0 /\ branch_taken = 0
                    /\ rf' = rf
                    /\ pc' = IF stall = 1 THEN pc ELSE (pc + 1) % 65536)]_vars

\* an instruction with opcode 7 and a destination whose cell is not 0 is in
\* execute, with nonzero operands
C11_Witness ==
    /\ design = "alu" /\ cycle < MaxCyclesAlu
    /\ h_x_src # NoAddr /\ OpOf(MemRead(imem, h_x_src)) = 7
    /\ x_rd # 0 /\ rf[x_rd] # 0 /\ x_alu_in1 # 0 /\ x_alu_in2 # 0

\* C12: pipelined-alu-3stg.py.  inst is ignored while stall is high: a second
\* run from the same initial state with the same stall input and the same
\* inst input in every cycle with stall = 0, but another inst in the cycles
\* with stall = 1, has the same rf, in1, in2, out, c_addr_1, c_addr_2,
\* write_1 and write_2 in every cycle; only op_1 may differ.
C12_StalledInstIgnored ==
    design = "3stg" =>
        /\ h_twin.rf = rf
        /\ h_twin.in1 = in1 /\ h_twin.in2 = in2 /\ h_twin.out = out
        /\ h_twin.c_addr_1 = c_addr_1 /\ h_twin.c_addr_2 = c_addr_2
        /\ h_twin.write_1 = write_1 /\ h_twin.write_2 = write_2

\* the two runs got different inst inputs in the stalled cycle just run (op_1
\* differs), after an earlier stall was followed by issued instructions that
\* wrote rf
C12_Witness ==
    /\ design = "3stg" /\ h_stall1 = 1 /\ h_phase = "other"
    /\ h_twin.op_1 # op_1 /\ rf # RfInit3

\* sequence p is an initial part of sequence q
IsPrefix(p, q) ==
    /\ Len(p) <= Len(q)
    /\ \A k \in 1..Len(p) : p[k] = q[k]

\* C14: pipelined-alu.py.  Asserting stall only delays the program: the
\* ordered sequence of rf writes (address, value) and taken jumps of a run with
\* any stall input is that of the run of the same program with stall = 0
\* throughout, at most later; after the same number of cycles it is an initial
\* part of it.
C14_StallOnlyDelays ==
    design = "alu" => IsPrefix(h_log, h_twin_log)

\* C15: pipelined-alu.py, stall = 0 throughout.  The operand latched into
\* x_alu_in1 / x_alu_in2 for a non-squashed register instruction is the value
\* its source register has once every earlier instruction has completed (the
\* one in execute has committed its write), and the forwarding path is taken
\* only from an instruction that writes (x_ctrl_write = 1).
C15_OperandIsArchitectural ==
    [][(design = "alu" /\ ~h_anyStall /\ stall = 0
        /\ nop = 0 /\ ctrl_branch = 0) =>
            /\ x_alu_in1' = rf_next_alu[inst_a]
            /\ x_alu_in2' = rf_next_alu[inst_b]
            /\ (fwd_in1 = 1 => x_ctrl_write = 1)
            /\ (fwd_in2 = 1 => x_ctrl_write = 1)]_vars

\* the register file once every instruction issued so far has written back
ArchRf3 == RefRun(RfInit3, h_issued)

\* C16: pipelined-alu-3stg.py, any stall input.  A bubble is never a
\* forwarding source: the operand latched into in1 / in2 for an instruction
\* issued with stall = 0 is the value its source register holds once all
\* previously issued instructions have written back, also for r0 after r0 was
\* written and stalled cycles followed.
C16_BubbleNeverForwards ==
    [][(design = "3stg" /\ stall = 0) =>
            /\ in1' = ArchRf3[s3_inst_a]
            /\ in2' = ArchRf3[s3_inst_b]]_vars

\* the result of the instruction recorded in pipeline slot e: its operation
\* applied to the operands latched for it
SlotResult(e) == RefOp(OpOf(e[1]), e[2], e[3])

\* the destination field of the instruction recorded in slot e
SlotDest(e) == (e[1] \div 256) % 16

\* C17: pipelined-alu-3stg.py.  An instruction issued in cycle t (stall = 0)
\* retires with fixed latency whatever stall and inst are in cycles t+1 and
\* t+2: in cycle t+1 it is in stage 1 with its operands, opcode and
\* destination and write_1 = 1; in cycle t+2 it is in stage 2 with
\* out = op(in1, in2) mod 2^16 of those operands and write_2 = 1, and the
\* commit of cycle t+2 writes that value to rf[inst_c] and nothing else.
C17_FixedLatencyRetire ==
    [][design = "3stg" =>
            /\ (h_pipe[1] # <<>> =>
                    /\ in1 = h_pipe[1][2] /\ in2 = h_pipe[1][3]
                    /\ op_1 = OpOf(h_pipe[1][1])
                    /\ write_1 = 1 /\ c_addr_1 = SlotDest(h_pipe[1])
                    /\ s3_alu_result = SlotResult(h_pipe[1]))
            /\ (h_pipe[2] # <<>> =>
                    /\ write_2 = 1 /\ c_addr_2 = SlotDest(h_pipe[2])
                    /\ out = SlotResult(h_pipe[2])
                    /\ rf' = [rf EXCEPT ![SlotDest(h_pipe[2])] =
                                            SlotResult(h_pipe[2])])]_vars

\* an instruction issued two cycles ago is in stage 2 after a stalled cycle,
\* the cycle about to run is stalled too, and its write changes rf
C17_Witness ==
    /\ design = "3stg" /\ cycle < MaxCycles3
    /\ h_pipe[2] # <<>> /\ h_stall1 = 1 /\ stall = 1
    /\ rf[SlotDest(h_pipe[2])] # SlotResult(h_pipe[2])

\* the branch wire, the squash bubble and "a JUMP is being decoded" of the
\* design that is running (pipelined-alu.py or counter.py)
TakenNow == IF design = "alu" THEN branch_taken ELSE ctr_branch_taken

BubbleWord == IF design = "alu" THEN NOP_INST ELSE 0

JumpInDecode ==
    IF design = "alu" THEN ctrl_branch = 1 ELSE ctr_inst_op = CTR_JUMP

\* C18: counter.py and pipelined-alu.py.  After every cycle d_pc is the value
\* pc had in that cycle and d_inst is imem[d_pc], or the squash bubble (0x00 /
\* 0x1000) exactly when branch_taken was high in that cycle; so a JUMP in
\* decode was fetched from the address in d_pc and computes its target from
\* it.
C18_DecodeHoldsFetch ==
    [][(design = "alu" \/ design = "counter") =>
            /\ d_pc' = pc
            /\ d_inst' = IF TakenNow = 1 THEN BubbleWord
                         ELSE MemRead(imem, d_pc')
            /\ (JumpInDecode =>
                    /\ h_d_src # NoAddr /\ d_pc = h_d_src
                    /\ d_inst = MemRead(imem, d_pc))
            /\ ((design = "alu" /\ ctrl_branch = 1) => x_alu_in1' = d_pc)
            /\ ((design = "counter" /\ ctr_inst_op = CTR_JUMP) =>
                    pc' = Trunc(d_pc + ctr_inst_imm, CTR_WIDTH))]_vars

\* the cycle after a taken jump: decode holds the bubble, not the word at
\* d_pc, and d_pc is an address other than 0
C18_Witness ==
    /\ design \in {"alu", "counter"} /\ cycle >= 1
    /\ h_d_src = NoAddr /\ d_inst = BubbleWord
    /\ MemRead(imem, d_pc) # d_inst /\ d_pc # 0

\* C19: counter.py.  counter is assigned only when the decoded opcode is INC
\* or DEC; in a cycle decoding NOP (the squash bubble included) or JUMP it
\* keeps its value, although alu_result is 0 or the branch target then.
C19_CounterFrame ==
    [][design = "counter" =>
            /\ (ctr_inst_op \in {CTR_NOP, CTR_JUMP} => counter' = counter)
            /\ (ctr_inst_op = CTR_NOP => ctr_alu_result = 0)
            /\ (ctr_inst_op = CTR_JUMP => ctr_alu_result = ctr_branch_target)
            /\ (counter' # counter => ctr_inst_op \in {CTR_INC, CTR_DEC})]_vars

\* a JUMP is decoded while counter is not 0 and differs from the branch
\* target on alu_result
C19_Witness ==
    /\ design = "counter" /\ cycle < MaxCyclesCtr /\ counter # 0
    /\ ctr_inst_op = CTR_JUMP /\ ctr_alu_result # counter

\* C20: counter.py.  All arithmetic is cut to 8 bits: pc, counter, d_pc and
\* d_inst are in 0..255 in every reachable state; DEC with counter = 0 gives
\* 255, INC with counter = 255 gives 0, and pc = 255 advances to 0.
C20_EightBitWrap ==
    [][design = "counter" =>
            /\ pc \in 0..255 /\ counter \in 0..255
            /\ d_pc \in 0..255 /\ d_inst \in 0..255
            /\ ((ctr_inst_op = CTR_DEC /\ counter = 0) => counter' = 255)
            /\ ((ctr_inst_op = CTR_INC /\ counter = 255) => counter' = 0)
            /\ ((pc = 255 /\ ctr_branch_taken = 0) => pc' = 0)]_vars

\* pc has just advanced from 255 to 0, counter is 255 after a DEC from 0, and
\* the INC fetched from address 255 is about to execute
C20_Witness ==
    /\ design = "counter" /\ cycle < MaxCyclesCtr
    /\ pc = 0 /\ d_pc = 255 /\ h_d_src = 255
    /\ counter = 255 /\ ctr_inst_op = CTR_INC

====
